---- MODULE Spec2Model ----
(***************************************************************************)
(* A model of src/templates/database.py: the Database class (construction,  *)
(* _add_table, _read_tabular) over an in-memory sqlite3 store, and of the    *)
(* table-name sanitiser src/templates/unicode2ascii.py.                      *)
(*                                                                           *)
(* A Python str is a sequence of one-character tokens, so that int(), float()*)
(* and unicode2ascii() are computed character by character.  A Python int is *)
(* unbounded: it is kept as a sign and a sequence of decimal digits, so that *)
(* the 64-bit range of an SQLite INTEGER is a real limit.                    *)
(***************************************************************************)
EXTENDS Integers, Sequences, FiniteSets, TLC

VARIABLES
    fs,       \* the file system: file path -> decoded and parsed content
    pc,       \* life of the Database object: "new", "ready" or "raised"
    tables,   \* Database.tables: table name -> file path
    store,    \* Database.connection: relation name -> [columns, datatypes, rows]
    call,     \* the last call made on the object and how it ended
    raw,      \* what the last _read_tabular read from its file
    ret       \* what the last _read_tabular returned (or the exception raised)

vars == <<fs, pc, tables, store, call, raw, ret>>

(***************************************************************************)
(* Bounds of the model.                                                      *)
(***************************************************************************)
\* A file read by _read_tabular alone holds at most MaxCells data cells
\* (columns times rows) and, when it has no row, at most MaxCells columns.
MaxCells == 6

(***************************************************************************)
(* Python strings and numbers.                                               *)
(***************************************************************************)
Digits == {"0", "1", "2", "3", "4", "5", "6", "7", "8", "9"}

DigitVal ==
    "0" :> 0 @@ "1" :> 1 @@ "2" :> 2 @@ "3" :> 3 @@ "4" :> 4 @@
    "5" :> 5 @@ "6" :> 6 @@ "7" :> 7 @@ "8" :> 8 @@ "9" :> 9

IsDigit(c) == c \in Digits

Front(s) == SubSeq(s, 1, Len(s) - 1)

RECURSIVE LStrip(_)
LStrip(s) == IF s # <<>> /\ Head(s) = " " THEN LStrip(Tail(s)) ELSE s

RECURSIVE RStrip(_)
RStrip(s) == IF s # <<>> /\ s[Len(s)] = " " THEN RStrip(Front(s)) ELSE s

\* str.strip(), on the blank the model's alphabet has
Strip(s) == RStrip(LStrip(s))

HasSign(s) == s # <<>> /\ Head(s) \in {"+", "-"}

Unsigned(s) == IF HasSign(s) THEN Tail(s) ELSE s

\* A digit part of a Python numeric literal: digits, with single underscores
\* allowed between two digits.
DigitPart(s) ==
    /\ s # <<>>
    /\ IsDigit(s[1])
    /\ IsDigit(s[Len(s)])
    /\ \A i \in 1..Len(s) : IsDigit(s[i]) \/ s[i] = "_"
    /\ \A i \in 1..(Len(s) - 1) : ~(s[i] = "_" /\ s[i + 1] = "_")

DigitsOf(s) == [i \in 1..Len(SelectSeq(s, IsDigit)) |-> DigitVal[SelectSeq(s, IsDigit)[i]]]

RECURSIVE DropLeadingZeros(_)
DropLeadingZeros(d) ==
    IF d # <<>> /\ Head(d) = 0 THEN DropLeadingZeros(Tail(d)) ELSE d

RECURSIVE DropTrailingZeros(_)
DropTrailingZeros(d) ==
    IF d # <<>> /\ d[Len(d)] = 0 THEN DropTrailingZeros(Front(d)) ELSE d

\* Values held by a row: a str, an int or a float.
StrVal(s) == [t |-> "str", s |-> s]

IntVal(neg, mag) == [t |-> "int", neg |-> neg /\ mag # <<>>, mag |-> mag]

\* A finite float is its sign, its significant digits and a power of ten.
FloatVal(neg, mag, exp) ==
    [t |-> "float", cls |-> "finite", neg |-> neg, mag |-> mag,
     exp |-> IF mag = <<>> THEN 0 ELSE exp]

NaN == [t |-> "float", cls |-> "nan", neg |-> FALSE, mag |-> <<>>, exp |-> 0]

Inf(neg) == [t |-> "float", cls |-> "inf", neg |-> neg, mag |-> <<>>, exp |-> 0]

\* int(s) succeeds
IntOk(s) == DigitPart(Unsigned(Strip(s)))

\* int(s), where it succeeds
IntOf(s) ==
    LET b == Strip(s)
    IN  IntVal(HasSign(b) /\ Head(b) = "-", DropLeadingZeros(DigitsOf(Unsigned(b))))

\* The first position of character c in s, or 0
RECURSIVE IndexFrom(_, _, _)
IndexFrom(s, c, i) ==
    IF i > Len(s) THEN 0
    ELSE IF s[i] = c THEN i
    ELSE IndexFrom(s, c, i + 1)

Find(s, c) == IndexFrom(s, c, 1)

Lower(s) == [i \in 1..Len(s) |-> IF s[i] = "E" THEN "e" ELSE s[i]]

\* The parts of a float literal without its sign: integer part, fraction part,
\* and exponent part (with hasExp telling "e" was written).
FloatParts(u) ==
    LET e    == Find(u, "e")
        m    == IF e = 0 THEN u ELSE SubSeq(u, 1, e - 1)
        x    == IF e = 0 THEN <<>> ELSE SubSeq(u, e + 1, Len(u))
        d    == Find(m, ".")
    IN  [ip     |-> IF d = 0 THEN m ELSE SubSeq(m, 1, d - 1),
         fp     |-> IF d = 0 THEN <<>> ELSE SubSeq(m, d + 1, Len(m)),
         hasExp |-> e # 0,
         xp     |-> x]

SpecialFloat(u) == u \in {<<"n", "a", "n">>, <<"i", "n", "f">>}

\* float(s) succeeds
FloatOk(s) ==
    LET u == Lower(Unsigned(Strip(s)))
        p == FloatParts(u)
    IN  \/ SpecialFloat(u)
        \/ /\ p.ip = <<>> \/ DigitPart(p.ip)
           /\ p.fp = <<>> \/ DigitPart(p.fp)
           /\ ~(p.ip = <<>> /\ p.fp = <<>>)
           /\ p.hasExp => DigitPart(Unsigned(p.xp))

\* The number a sequence of decimal digits writes (exponents only: they are short)
RECURSIVE NatOf(_)
NatOf(d) == IF d = <<>> THEN 0 ELSE 10 * NatOf(Front(d)) + d[Len(d)]

\* float(s), where it succeeds: sign, significant digits and power of ten
FloatOf(s) ==
    LET b    == Strip(s)
        neg  == HasSign(b) /\ Head(b) = "-"
        u    == Lower(Unsigned(b))
        p    == FloatParts(u)
        fd   == DigitsOf(p.fp)
        all  == DropLeadingZeros(DigitsOf(p.ip) \o fd)
        sig  == DropTrailingZeros(all)
        xneg == HasSign(p.xp) /\ Head(p.xp) = "-"
        xabs == NatOf(DigitsOf(Unsigned(p.xp)))
        x    == IF p.hasExp THEN (IF xneg THEN 0 - xabs ELSE xabs) ELSE 0
    IN  IF u = <<"n", "a", "n">> THEN NaN
        ELSE IF u = <<"i", "n", "f">> THEN Inf(neg)
        ELSE FloatVal(neg, sig, x - Len(fd) + (Len(all) - Len(sig)))

(***************************************************************************)
(* Database._read_tabular (database.py, lines 156-228).                      *)
(*                                                                           *)
(* A file is what open() and csv.DictReader make of it: either the bytes are *)
(* not UTF-8, or the Sniffer finds no dialect, or it is a header (the column *)
(* names, in order) and a sequence of rows, each a dict from the column      *)
(* names to raw strings.                                                     *)
(***************************************************************************)
KeySet(keys) == {keys[i] : i \in 1..Len(keys)}

\* lines 180-185: open, sniff, DictReader
ReadRows(file) ==
    IF file.kind = "undecodable" THEN [exc |-> "UnicodeDecodeError", data |-> <<>>]
    ELSE IF file.kind = "nodialect" THEN [exc |-> "csv.Error", data |-> <<>>]
    ELSE [exc |-> "none", data |-> file.rows]

\* lines 194-198: values = {key: [row[key] for row in data]}
ColumnValues(keys, data) ==
    [kind |-> "dict",
     cols |-> [k \in KeySet(keys) |-> [i \in 1..Len(data) |-> data[i][k]]]]

\* values[key]: defined while `values` is still the dict of columns; once
\* `values` has been rebound to a list, a str subscript raises TypeError.
CanSubscript(values, key) == values.kind = "dict" /\ key \in DOMAIN values.cols

\* A variant of the int attempt that leaves `values` bound to the dict of
\* columns (the list going to a name of its own).
IntAttempt_KeepsValues(st, key) ==
    IF /\ CanSubscript(st.values, key)
       /\ \A i \in 1..Len(st.values.cols[key]) : IntOk(st.values.cols[key][i].s)
    THEN [values |-> st.values, key_map |-> (key :> "INTEGER") @@ st.key_map]
    ELSE st

\* lines 202-206: try: values = [int(v) for v in values[key]]; key_map[key] = "INTEGER"
IntAttempt(st, key) ==
    IF /\ CanSubscript(st.values, key)
       /\ \A i \in 1..Len(st.values.cols[key]) : IntOk(st.values.cols[key][i].s)
    THEN [values  |-> [kind  |-> "list",
                       items |-> [i \in 1..Len(st.values.cols[key]) |->
                                      IntOf(st.values.cols[key][i].s)]],
          key_map |-> (key :> "INTEGER") @@ st.key_map]
    ELSE st

\* A variant of the float attempt that leaves `values` bound to the dict of
\* columns.
FloatAttempt_KeepsValues(st, key) ==
    IF /\ CanSubscript(st.values, key)
       /\ \A i \in 1..Len(st.values.cols[key]) : FloatOk(st.values.cols[key][i].s)
    THEN [values |-> st.values, key_map |-> (key :> "REAL") @@ st.key_map]
    ELSE st

\* lines 209-213: try: values = [float(v) for v in values[key]]; key_map[key] = "REAL"
FloatAttempt(st, key) ==
    IF /\ CanSubscript(st.values, key)
       /\ \A i \in 1..Len(st.values.cols[key]) : FloatOk(st.values.cols[key][i].s)
    THEN [values  |-> [kind  |-> "list",
                       items |-> [i \in 1..Len(st.values.cols[key]) |->
                                      FloatOf(st.values.cols[key][i].s)]],
          key_map |-> (key :> "REAL") @@ st.key_map]
    ELSE st

\* lines 200-213: for key in keys: the int attempt, then the float attempt
RECURSIVE InferLoop(_, _)
InferLoop(keys, st) ==
    IF keys = <<>> THEN st
    ELSE InferLoop(Tail(keys), FloatAttempt(IntAttempt(st, Head(keys)), Head(keys)))

\* A variant of the conversion that converts every cell that parses as an
\* int, whatever its column was found to be.
ConvertRow_PerCell(row, key_map) ==
    [k \in DOMAIN row |-> IF IntOk(row[k].s) THEN IntOf(row[k].s) ELSE row[k]]

\* A variant of the conversion without the REAL branch.
ConvertRow_IntegerOnly(row, key_map) ==
    [k \in DOMAIN row |->
        IF k \in DOMAIN key_map /\ key_map[k] = "INTEGER" THEN IntOf(row[k].s)
        ELSE row[k]]

\* lines 219-223: the conversion of one row
ConvertRow(row, key_map) ==
    [k \in DOMAIN row |->
        IF k \in DOMAIN key_map /\ key_map[k] = "INTEGER" THEN IntOf(row[k].s)
        ELSE IF k \in DOMAIN key_map /\ key_map[k] = "REAL" THEN FloatOf(row[k].s)
        ELSE row[k]]

\* line 226: datatypes = {key: key_map.get(key, "TEXT") for key in keys}
Datatypes(keys, key_map) ==
    [k \in KeySet(keys) |-> IF k \in DOMAIN key_map THEN key_map[k] ELSE "TEXT"]

Raised(exc) == [exc |-> exc, keys |-> <<>>, data |-> <<>>, datatypes |-> <<>>]

\* lines 215-228: the rows converted by key_map, and the datatypes
TypedRows(keys, data, key_map) ==
    [exc       |-> "none",
     keys      |-> keys,
     data      |-> [i \in 1..Len(data) |-> ConvertRow(data[i], key_map)],
     datatypes |-> Datatypes(keys, key_map)]

\* lines 193-228: keys = data[0].keys() raises IndexError on a file with no
\* row; the keys of a row are the header's names, in the header's order
InferTypes(keys, read) ==
    IF read.exc # "none" THEN Raised(read.exc)
    ELSE IF read.data = <<>> THEN Raised("IndexError")
    ELSE TypedRows(keys, read.data,
                   InferLoop(keys, [values  |-> ColumnValues(keys, read.data),
                                    key_map |-> <<>>]).key_map)

_read_tabular(file) == InferTypes(file.header, ReadRows(file))

(***************************************************************************)
(* Inputs of _read_tabular.                                                  *)
(***************************************************************************)
\* The raw cell values the files are made of: an int, a negative int, an int
\* after a blank, a float that is no int, a text that is no number, and the
\* empty cell.
RawValues ==
    {<<"7">>, <<"-", "1", "0">>, <<" ", "3">>, <<"2", ".", "5">>, <<"x">>, <<>>}

ColNames == <<"a", "b", "c", "d", "e", "f", "g", "h">>

Header(n) == SubSeq(ColNames, 1, n)

\* columns and rows of a file: at most MaxCells cells
Shapes ==
    {sh \in (1..MaxCells) \X (0..MaxCells) :
        /\ sh[1] * sh[2] <= MaxCells
        /\ sh[1] <= Len(ColNames)}

RawRows(c, r) ==
    [1..r -> [KeySet(Header(c)) -> {StrVal(v) : v \in RawValues}]]

Unreadable(kind) == [kind |-> kind, header |-> <<>>, rows |-> <<>>]

Table(header, rows) == [kind |-> "table", header |-> header, rows |-> rows]

\* file is one of the files within the bounds
IsFile(file) ==
    \/ \E sh \in Shapes : \E rows \in RawRows(sh[1], sh[2]) :
            file = Table(Header(sh[1]), rows)
    \/ file \in {Unreadable("undecodable"), Unreadable("nodialect")}

NotCalled == Raised("pending")

NoPath == [parent |-> "", name |-> <<>>]

NoCall == [op |-> "none", arg |-> NoPath, exc |-> "none"]

(***************************************************************************)
(* unicode2ascii (unicode2ascii.py, lines 20-45) and pathlib's Path.stem.    *)
(* "a_acute" stands for the one character U+00E1.  database.py takes          *)
(* unidecode when it is installed and this function otherwise; the two agree *)
(* on the names used here.                                                   *)
(***************************************************************************)
Printable == Digits \cup {"a", "b", "c", "d", "e", "s", "v", "x", ".", "_", "-", "+", " "}

UNICODE_MAP == "a_acute" :> <<"a">>

RECURSIVE AsciiOf(_)
AsciiOf(text) ==
    IF text = <<>> THEN <<>>
    ELSE (IF Head(text) \in Printable THEN <<Head(text)>>
          ELSE IF Head(text) \in DOMAIN UNICODE_MAP THEN UNICODE_MAP[Head(text)]
          ELSE <<>>) \o AsciiOf(Tail(text))

unicode2ascii(text) == Strip(AsciiOf(text))

\* The last position of "." in name, or 0
RECURSIVE LastDot(_, _)
LastDot(name, i) ==
    IF i = 0 THEN 0
    ELSE IF name[i] = "." THEN i
    ELSE LastDot(name, i - 1)

\* Path.stem: the name without its last suffix (a leading dot starts no suffix)
Stem(path) ==
    LET d == LastDot(path.name, Len(path.name))
    IN  IF d <= 1 THEN path.name ELSE SubSeq(path.name, 1, d - 1)

(***************************************************************************)
(* The sqlite3 connection: CREATE TABLE and executemany of the INSERT.       *)
(***************************************************************************)
\* 2^63 - 1 and 2^63, the largest magnitudes of an SQLite INTEGER
MaxInt64 == <<9, 2, 2, 3, 3, 7, 2, 0, 3, 6, 8, 5, 4, 7, 7, 5, 8, 0, 7>>

MinInt64 == <<9, 2, 2, 3, 3, 7, 2, 0, 3, 6, 8, 5, 4, 7, 7, 5, 8, 0, 8>>

\* a <= b, for two digit sequences of the same length
RECURSIVE DigitsLeq(_, _)
DigitsLeq(a, b) ==
    IF a = <<>> THEN TRUE
    ELSE IF Head(a) # Head(b) THEN Head(a) < Head(b)
    ELSE DigitsLeq(Tail(a), Tail(b))

MagLeq(a, b) == Len(a) < Len(b) \/ (Len(a) = Len(b) /\ DigitsLeq(a, b))

\* sqlite3 binds a Python int only when it fits 64 bits (else OverflowError)
Bindable(v) ==
    v.t = "int" => MagLeq(v.mag, IF v.neg THEN MinInt64 ELSE MaxInt64)

\* connection.execute("CREATE TABLE name (key datatype, ...)")
CreateTable(st, name, keys, datatypes) ==
    IF name = <<>> \/ name \in DOMAIN st
    THEN [exc |-> "OperationalError", store |-> st]
    ELSE [exc   |-> "none",
          store |-> (name :> [columns |-> keys, datatypes |-> datatypes, rows |-> <<>>])
                    @@ st]

\* connection.executemany(INSERT, rows): the rows are bound and inserted in
\* order; a row that does not bind raises and the rows before it stay.
RECURSIVE ExecuteMany(_, _, _)
ExecuteMany(st, name, rows) ==
    IF rows = <<>> THEN [exc |-> "none", store |-> st]
    ELSE IF \E k \in DOMAIN Head(rows) : ~Bindable(Head(rows)[k])
    THEN [exc |-> "OverflowError", store |-> st]
    ELSE ExecuteMany([st EXCEPT ![name].rows = Append(@, Head(rows))], name, Tail(rows))

(***************************************************************************)
(* Database._add_table (database.py, lines 108-148): what a call makes of    *)
(* self.tables and of the store, and the exception it ends with ("none" when *)
(* it returns).                                                              *)
(***************************************************************************)
\* line 123
TableName(filepath) == unicode2ascii(Stem(filepath))

Outcome(exc, tbls, st, read) ==
    [exc |-> exc, tables |-> tbls, store |-> st, read |-> read]

\* lines 139-148: the INSERT, after self.tables[tablename] = filepath
AddData(tbls, filepath, read, inserted) ==
    Outcome(inserted.exc, (TableName(filepath) :> filepath) @@ tbls, inserted.store, read)

\* lines 136-148: the CREATE TABLE raises, or the table is registered and filled
AddCreated(tbls, st, filepath, read, created) ==
    IF created.exc # "none" THEN Outcome(created.exc, tbls, st, read)
    ELSE AddData(tbls, filepath, read,
                 ExecuteMany(created.store, TableName(filepath), read.data))

\* lines 119-148: _read_tabular raises, or the table is created
AddRead(tbls, st, filepath, read) ==
    IF read.exc # "none" THEN Outcome(read.exc, tbls, st, read)
    ELSE AddCreated(tbls, st, filepath, read,
                    CreateTable(st, TableName(filepath), read.keys, read.datatypes))

_add_table(tbls, st, file, filepath) ==
    AddRead(tbls, st, filepath, _read_tabular(file))

(***************************************************************************)
(* The file system the Database is built from.                               *)
(***************************************************************************)
Csv(stem) == stem \o <<".", "c", "s", "v">>

FileA == [parent |-> "d", name |-> Csv(<<"a">>)]

FileB == [parent |-> "d", name |-> Csv(<<"b">>)]

FileAcute == [parent |-> "e", name |-> Csv(<<"a_acute">>)]

DirD == [parent |-> "", name |-> <<"d">>]

DirE == [parent |-> "", name |-> <<"e">>]

FilePaths == {FileA, FileB, FileAcute}

DirPaths == {DirD, DirE}

Row2(a, b) == ("a" :> StrVal(a)) @@ ("b" :> StrVal(b))

Row1(a) == "a" :> StrVal(a)

\* a text column and an int column, two rows
TextAndInt == Table(Header(2), <<Row2(<<"x">>, <<"7">>), Row2(<<>>, <<"-", "1", "0">>)>>)

\* an int column whose second value is 2^63
TooLarge ==
    Table(Header(1),
          <<Row1(<<"7">>),
            Row1(<<"9", "2", "2", "3", "3", "7", "2", "0", "3", "6",
                   "8", "5", "4", "7", "7", "5", "8", "0", "8">>),
            Row1(<<"7">>)>>)

\* a header and no row
HeaderOnly == Table(Header(2), <<>>)

SampleFiles == {TextAndInt, TooLarge, HeaderOnly, Unreadable("undecodable")}

NoFile == Unreadable("unread")

(***************************************************************************)
(* The Database object: construction, then calls of _add_table.              *)
(***************************************************************************)
Init ==
    /\ fs \in [FilePaths -> SampleFiles]
    /\ pc = "new"
    /\ tables = <<>>
    /\ store = <<>>
    /\ call = NoCall
    /\ raw = NoFile
    /\ ret = NotCalled

\* Database(): lines 93-96, then None.is_file() raises at line 105
ConstructNoSource ==
    /\ pc = "new"
    /\ pc' = "raised"
    /\ tables' = <<>>
    /\ store' = <<>>
    /\ call' = [op |-> "Database()", arg |-> NoPath, exc |-> "AttributeError"]
    /\ UNCHANGED <<fs, raw, ret>>

\* Database(source_path), lines 93-106, for the path of a file
ConstructFromFile(source_path) ==
    /\ pc = "new"
    /\ source_path \in DOMAIN fs
    /\ \E r \in {_add_table(<<>>, <<>>, fs[source_path], source_path)} :
           /\ pc' = IF r.exc = "none" THEN "ready" ELSE "raised"
           /\ tables' = r.tables
           /\ store' = r.store
           /\ call' = [op |-> "Database(path)", arg |-> source_path, exc |-> r.exc]
           /\ raw' = fs[source_path]
           /\ ret' = r.read
    /\ UNCHANGED fs

\* Database(source_path), lines 93-105, for a path is_file() is false of
ConstructFromOther(source_path) ==
    /\ pc = "new"
    /\ source_path \notin DOMAIN fs
    /\ pc' = "ready"
    /\ tables' = <<>>
    /\ store' = <<>>
    /\ call' = [op |-> "Database(path)", arg |-> source_path, exc |-> "none"]
    /\ UNCHANGED <<fs, raw, ret>>

\* db._add_table(filepath) on a constructed Database
AddTable(filepath) ==
    /\ pc = "ready"
    /\ filepath \in DOMAIN fs
    /\ \E r \in {_add_table(tables, store, fs[filepath], filepath)} :
           /\ tables' = r.tables
           /\ store' = r.store
           /\ call' = [op |-> "_add_table", arg |-> filepath, exc |-> r.exc]
           /\ raw' = fs[filepath]
           /\ ret' = r.read
    /\ UNCHANGED <<fs, pc>>

Next ==
    \/ ConstructNoSource
    \/ \E p \in FilePaths : ConstructFromFile(p)
    \/ \E p \in DirPaths : ConstructFromOther(p)
    \/ \E p \in FilePaths : AddTable(p)

Spec == Init /\ [][Next]_vars

(***************************************************************************)
(* _read_tabular on its own: the method reads its file and nothing of the    *)
(* Database object, so it is run here on every file within the bounds.       *)
(***************************************************************************)
InitRead ==
    /\ IsFile(raw)
    /\ ret = NotCalled
    /\ fs = <<>>
    /\ pc = "new"
    /\ tables = <<>>
    /\ store = <<>>
    /\ call = NoCall

ReadTabular ==
    /\ ret = NotCalled
    /\ ret' = _read_tabular(raw)
    /\ UNCHANGED <<fs, pc, tables, store, call, raw>>

NextRead == ReadTabular

SpecRead == InitRead /\ [][NextRead]_vars

(***************************************************************************)
(* Properties of _read_tabular, stated on the file read (raw) and on what    *)
(* the call returned (ret).                                                  *)
(***************************************************************************)
Returned == ret.exc = "none"

RowNumbers == 1..Len(raw.rows)

AllInt(k) == \A i \in RowNumbers : IntOk(raw.rows[i][k].s)

AllFloat(k) == \A i \in RowNumbers : FloatOk(raw.rows[i][k].s)

SomeNonNumeric(k) ==
    \E i \in RowNumbers : ~IntOk(raw.rows[i][k].s) /\ ~FloatOk(raw.rows[i][k].s)

\* the datatype the raw values of column k call for
Expected(k) ==
    IF AllInt(k) THEN "INTEGER" ELSE IF AllFloat(k) THEN "REAL" ELSE "TEXT"

\* C1: every column's datatype is decided from its own raw values alone:
\* INTEGER if all convert to int, else REAL if all convert to float, else TEXT.
C1_PerColumnInference ==
    Returned => \A k \in KeySet(raw.header) : ret.datatypes[k] = Expected(k)

\* C2: a column whose raw values all convert to int is never given REAL.
C2_IntegerNeverReal ==
    Returned => \A k \in KeySet(raw.header) : AllInt(k) => ret.datatypes[k] # "REAL"

C2_Witness ==
    /\ Returned
    /\ Len(raw.rows) >= 2
    /\ \E k \in KeySet(raw.header) : AllInt(k) /\ ret.datatypes[k] = "INTEGER"

\* C3: a column with at least one value that converts neither to int nor to
\* float is TEXT, and every returned value of it is the raw string read.
C3_TextKeepsRaw ==
    Returned =>
        \A k \in KeySet(raw.header) :
            SomeNonNumeric(k) =>
                /\ ret.datatypes[k] = "TEXT"
                /\ \A i \in RowNumbers : ret.data[i][k] = raw.rows[i][k]

C3_Witness ==
    /\ Returned
    /\ \E k \in KeySet(raw.header) :
        /\ SomeNonNumeric(k)
        /\ \E i \in RowNumbers : IntOk(raw.rows[i][k].s)
        /\ \E i \in RowNumbers : FloatOk(raw.rows[i][k].s) /\ ~IntOk(raw.rows[i][k].s)

C5_InferenceNeverRaises ==
    (ret # NotCalled /\ raw.kind = "table" /\ Len(raw.header) >= 1) =>
        /\ ret.exc = "none"
        /\ DOMAIN ret.datatypes = KeySet(raw.header)

Ingestible(p) == _add_table(<<>>, <<>>, fs[p], p).exc = "none"

\* C6: constructed from the directory d, which holds a.csv and b.csv, the
\* Database ends with exactly the tables a and b, in the store and in tables.
C6_DirectoryIngestsEveryFile ==
    (call.op = "Database(path)" /\ call.arg = DirD
        /\ Ingestible(FileA) /\ Ingestible(FileB)) =>
        /\ pc = "ready"
        /\ DOMAIN tables = {<<"a">>, <<"b">>}
        /\ DOMAIN store = {<<"a">>, <<"b">>}

\* C7: constructed with no source, the Database is ready, raises nothing and
\* holds no table.
C7_NoSourceIsEmptyDatabase ==
    call.op = "Database()" =>
        /\ pc = "ready"
        /\ call.exc = "none"
        /\ tables = <<>>
        /\ store = <<>>

\* the file at p sanitises to the name of a table made from another file
Collides(p) ==
    /\ TableName(p) \in DOMAIN tables
    /\ tables[TableName(p)] # p

\* C8: ingesting a (well-formed) file whose name collides with the table of
\* another file fails with DuplicateTableError and leaves neither table:
\* afterwards no relation and no entry of tables has that name.
C8_CollisionRejectedAtomically ==
    [][\A p \in FilePaths :
          (AddTable(p) /\ Collides(p) /\ Ingestible(p)) =>
              /\ call'.exc = "DuplicateTableError"
              /\ TableName(p) \notin DOMAIN store'
              /\ TableName(p) \notin DOMAIN tables']_vars

\* C9: when _add_table fails for a file, at whatever step, no relation and no
\* entry of tables is left for that file (stated for a file whose table name
\* was free before the call).
C9_FailureLeavesNoTable ==
    [][\A p \in FilePaths :
          (AddTable(p) /\ TableName(p) \notin DOMAIN store /\ call'.exc # "none") =>
              /\ TableName(p) \notin DOMAIN store'
              /\ TableName(p) \notin DOMAIN tables']_vars

====
